---------------------------- MODULE Spec2Model ----------------------------
(***************************************************************************)
(* Model of src/app.py: the in-memory job registry `jobs`, the background  *)
(* thread run_extraction / extract_frames_from_video that mutates one job  *)
(* record field by field, and the request handlers upload, progress and    *)
(* download that run on other threads and may be scheduled between any two *)
(* writes of the worker.                                                   *)
(*                                                                         *)
(* Real-valued inputs (frame rate, interval_s, delay_s) are carried in     *)
(* quarters (a value v stands for v/4), so every product the code forms is *)
(* exact in binary floating point and int() is an integer division.        *)
(***************************************************************************)
EXTENDS Integers, Sequences, FiniteSets, TLC

VARIABLES
    jobs,      \* app.py:17   the registry: job_id -> dict (a function over its keys)
    worker,    \* the locals of each started run_extraction thread, with its position
    outputs,   \* OUTPUT_FOLDER: created job directory -> set of image file names
    last,      \* the request just handled and its response (None after any other step)
    polled,    \* history: per job id, the progress the last 200 poll returned (-1: none yet)
    writes,    \* history: the image writes in order, <<job_id, file_index, name>>
    sched      \* the inputs and result of one schedule computation (SpecSchedule)

vars == <<jobs, worker, outputs, last, polled, writes, sched>>

---------------------------------------------------------------------------
(* Bounds of the model *)

MaxFiles == 2      \* files in one submission
MaxFrames == 2     \* scheduled frames of a readable video in the job model
MaxFps4 == 9       \* SpecSchedule: frame rate, in quarters, up to
MaxIv4 == 6        \* SpecSchedule: interval_s, in quarters, up to
MaxDl4 == 3        \* SpecSchedule: delay_s, in quarters, up to
MaxCount == 5      \* SpecSchedule: frame count up to

\* a reused identifier is explored while fewer than MaxWritten images were written
MaxWritten == 2

---------------------------------------------------------------------------
(* Python helpers *)


\* list(range(start, stop, step)) for step >= 1
RECURSIVE Range(_, _, _)
Range(start, stop, step) ==
    IF start >= stop THEN <<>>
    ELSE <<start>> \o Range(start + step, stop, step)

\* round(num / den) for num >= 0, den > 0: Python 3 rounds a tie to the even integer
PyRound(num, den) ==
    LET q == num \div den
        r == num % den
    IN  IF 2 * r < den THEN q
        ELSE IF 2 * r > den THEN q + 1
        ELSE IF q % 2 = 0 THEN q ELSE q + 1

\* (a variant of IntOfProduct that rounds to nearest instead of truncating)
RoundOfProduct(a4, b4) == PyRound(a4 * b4, 16)

\* int(a * b) for a = a4/4 >= 0 and b = b4/4 >= 0: truncation toward zero
IntOfProduct(a4, b4) == (a4 * b4) \div 16

Max(a, b) == IF a >= b THEN a ELSE b

\* d[k] = v on a dict: the key is added when absent
SetKey(d, k, v) == [x \in (DOMAIN d) \cup {k} |-> IF x = k THEN v ELSE d[x]]

\* d.get(k, default)
Get(d, k, default) == IF k \in DOMAIN d THEN d[k] ELSE default


---------------------------------------------------------------------------
(* The schedule of one video: extract_frames_from_video, lines 52-60 *)

\* frames_gap = max(1, int(fps * interval_s))
frames_gap(fps4, iv4) == Max(1, IntOfProduct(fps4, iv4))

\* delay = int(delay_s * fps)
delay(fps4, dl4) == IntOfProduct(dl4, fps4)

\* index_to_extract = [i for i in range(delay, total_frames, frames_gap)]
index_to_extract(fps4, total_frames, iv4, dl4) ==
    Range(delay(fps4, dl4), total_frames, frames_gap(fps4, iv4))

---------------------------------------------------------------------------
(* The environment: the files a client can submit and what OpenCV reports  *)
(* for each.  A file name is its stem and its extension as typed.          *)

File(stem, ext) == [stem |-> stem, ext |-> ext]

NoName == File("", "")          \* the part a browser sends for an empty file input

FileNames ==
    { File("clip", ".mp4"), File("clip", ".MOV"), File("bad", ".avi"),
      File("notes", ".txt") }

\* str.lower() on the extensions above
Lower(ext) == IF ext = ".MOV" THEN ".mov" ELSE ext

\* (a variant of IsVideoName without the extension test)
IsVideoName_AnyExtension(f) == TRUE

\* f.filename.lower().endswith(('.mov', '.mp4', '.avi'))
IsVideoName(f) == Lower(f.ext) \in {".mov", ".mp4", ".avi"}

\* cv2.VideoCapture(path) never raises: for a file it cannot open, CAP_PROP_FPS and
\* CAP_PROP_FRAME_COUNT both read 0.0.  bad.avi is such a file.
Unreadable(f) == f = File("bad", ".avi")

\* video.get(cv2.CAP_PROP_FPS), in quarters
Fps4(f) == IF Unreadable(f) THEN 0 ELSE IF f.ext = ".MOV" THEN 8 ELSE 4

\* int(video.get(cv2.CAP_PROP_FRAME_COUNT))
FrameCount(f) ==
    IF Unreadable(f) THEN 0 ELSE IF f.ext = ".MOV" THEN 2 * MaxFrames ELSE MaxFrames

\* ret of video.read(): the frames of clip.mp4 always decode, those of clip.MOV
\* may or may not (seeking in compressed video)
DecodeResults(f) == IF f.ext = ".MOV" THEN BOOLEAN ELSE {TRUE}

\* the values of the form fields interval_s and delay_s, in quarters
\* (defaults: interval_s = 1, delay_s = 0.5)
FormIntervals == {4}
FormDelays == {2}

\* the files of one request, in order
RECURSIVE SeqsUpTo(_, _)
SeqsUpTo(S, n) ==
    IF n = 0 THEN {<<>>}
    ELSE LET shorter == SeqsUpTo(S, n - 1)
         IN  shorter \cup {Append(s, x) : s \in {t \in shorter : Len(t) = n - 1}, x \in S}

\* up to MaxFiles named files, or the single unnamed part of an empty file input
Submissions == SeqsUpTo(FileNames, MaxFiles) \cup {<<NoName>>}

\* str(uuid.uuid4())[:8]: the identifiers the model lets uuid4 return
JobIds == {"1a2b3c4d"}

\* identifiers a client may ask about: those above and one never issued
RequestIds == JobIds \cup {"ffffffff"}

---------------------------------------------------------------------------
(* Paths and names *)

\* dest = os.path.join(UPLOAD_FOLDER, f"{job_id}_{f.filename}")
Dest(job_id, f) == [job |-> job_id, stem |-> f.stem, ext |-> f.ext]

\* the empty string, where a path's basename is stored
EmptyName == [job |-> "", stem |-> "", ext |-> ""]

\* f"{i:04d}" for 0 <= i < 10000: the four decimal digits of i
Pad4(i) == <<(i \div 1000) % 10, (i \div 100) % 10, (i \div 10) % 10, i % 10>>

\* file_name = os.path.splitext(os.path.basename(path))[0];
\* the image is f"{file_name}_{i:04d}.jpg"
OutputName(path, i) == [job |-> path.job, stem |-> path.stem, seq |-> Pad4(i)]

\* (a variant of OverallNum that leaves file_index out of the sum)
OverallNum_FileOnly(file_index, i, n_frames) == 100 * (i + 1)

\* overall = (file_index + (i + 1) / n_frames) / total_files * 100, as the fraction
\* num / den; round(overall) is PyRound of it
OverallNum(file_index, i, n_frames) == 100 * (file_index * n_frames + i + 1)
OverallDen(n_frames, total_files) == n_frames * total_files

---------------------------------------------------------------------------
(* Requests and responses *)

\* `earlier` is history kept with a 200 answer of /progress: the progress value the
\* previous 200 answer for the same job carried (-1: there was none)
Response(op, id, files, code, error, body) ==
    [op |-> op, id |-> id, files |-> files, code |-> code, error |-> error,
     body |-> body, earlier |-> -1]

None == Response("none", "", <<>>, 0, "", <<>>)

---------------------------------------------------------------------------
(* Initial state: module load, lines 13-23 *)

InitSched == [fps4 |-> 0, total_frames |-> 0, iv4 |-> 4, dl4 |-> 0, out |-> <<>>]

Init ==
    /\ jobs = <<>>
    /\ worker = <<>>
    /\ outputs = <<>>
    /\ last = None
    /\ polled = [id \in JobIds |-> -1]
    /\ writes = <<>>
    /\ sched = InitSched

---------------------------------------------------------------------------
(* POST /upload, lines 135-172 *)

\* (a variant of saved_paths that collects the destinations last file first)
RECURSIVE saved_paths_Reversed(_, _)
saved_paths_Reversed(job_id, files) ==
    IF files = <<>> THEN <<>>
    ELSE LET rest == saved_paths_Reversed(job_id, Tail(files))
         IN  IF Lower(Head(files).ext) \in {".mov", ".mp4", ".avi"}
             THEN rest \o <<Dest(job_id, Head(files))>>
             ELSE rest

\* saved_paths: the destinations of the files whose name passes the extension test
RECURSIVE saved_paths(_, _)
saved_paths(job_id, files) ==
    IF files = <<>> THEN <<>>
    ELSE LET rest == saved_paths(job_id, Tail(files))
         IN  IF IsVideoName(Head(files))
             THEN <<Dest(job_id, Head(files))>> \o rest
             ELSE rest

\* os.makedirs(job_output, exist_ok=True)
MakeDirs(dirs, job_id) ==
    IF job_id \in DOMAIN dirs THEN dirs
    ELSE [d \in (DOMAIN dirs) \cup {job_id} |-> IF d = job_id THEN {} ELSE dirs[d]]

\* the job record of lines 160-166
NewJob(paths) ==
    [status |-> "queued", progress |-> 0, total_files |-> Len(paths),
     frames_done |-> 0, current_file |-> EmptyName]

\* the thread of lines 168-170, not yet at its first statement
NewThread(job_id, paths, iv4, dl4) ==
    [pc |-> "l102", video_paths |-> paths, output_folder |-> job_id,
     interval_s |-> iv4, delay_s |-> dl4,
     idx |-> 0, total_frames |-> 0,
     n_frames |-> 0, index_to_extract |-> <<>>, i |-> 0, e |-> ""]

\* not files or files[0].filename == ''
NoFiles(files) == IF files = <<>> THEN TRUE ELSE files[1] = NoName

upload(files, iv4, dl4, job_id) ==
  /\ last = None
  /\
    \/ /\ NoFiles(files)
       /\ last' = Response("upload", "", files, 400, "No files uploaded", <<>>)
       /\ UNCHANGED <<jobs, worker, outputs, polled, writes, sched>>
    \/ /\ ~NoFiles(files)
       /\ saved_paths(job_id, files) = <<>>
       /\ outputs' = MakeDirs(outputs, job_id)
       /\ last' = Response("upload", "", files, 400,
                           "No valid video files (MP4, MOV, AVI)", <<>>)
       /\ UNCHANGED <<jobs, worker, polled, writes, sched>>
    \/ /\ ~NoFiles(files)
       /\ saved_paths(job_id, files) # <<>>
       /\ job_id \notin DOMAIN jobs      \* uuid4 returns an identifier not yet in use
       /\ outputs' = MakeDirs(outputs, job_id)
       /\ jobs' = SetKey(jobs, job_id, NewJob(saved_paths(job_id, files)))
       /\ worker' = SetKey(worker, job_id,
                           NewThread(job_id, saved_paths(job_id, files), iv4, dl4))
       /\ last' = Response("upload", job_id, files, 200, "", <<>>)
       /\ UNCHANGED <<polled, writes, sched>>

---------------------------------------------------------------------------
(* GET /progress/<job_id>, lines 175-179 *)

progress(job_id) ==
  /\ last = None
  /\
    \/ /\ job_id \notin DOMAIN jobs
       /\ last' = Response("progress", job_id, <<>>, 404, "Job not found", <<>>)
       /\ UNCHANGED <<jobs, worker, outputs, polled, writes, sched>>
    \/ /\ job_id \in DOMAIN jobs
       /\ last' = [Response("progress", job_id, <<>>, 200, "", jobs[job_id])
                      EXCEPT !.earlier = polled[job_id]]
       /\ polled' = [polled EXCEPT ![job_id] = jobs[job_id]["progress"]]
       /\ UNCHANGED <<jobs, worker, outputs, writes, sched>>

---------------------------------------------------------------------------
(* GET /download/<job_id>, lines 182-194 *)

\* job_id not in jobs or jobs[job_id]['status'] != 'done'
NotReady(job_id) ==
    IF job_id \notin DOMAIN jobs THEN TRUE ELSE jobs[job_id]["status"] # "done"

download(job_id) ==
  /\ last = None
  /\
    \/ /\ NotReady(job_id)
       /\ last' = Response("download", job_id, <<>>, 400, "Job not ready", <<>>)
       /\ UNCHANGED <<jobs, worker, outputs, polled, writes, sched>>
    \/ /\ ~NotReady(job_id)
       /\ "output_folder" \notin DOMAIN jobs[job_id]
       \* jobs[job_id]['output_folder'] raises KeyError: Flask answers 500
       /\ last' = Response("download", job_id, <<>>, 500, "KeyError", <<>>)
       /\ UNCHANGED <<jobs, worker, outputs, polled, writes, sched>>
    \/ /\ ~NotReady(job_id)
       /\ "output_folder" \in DOMAIN jobs[job_id]
       /\ last' = Response("download", job_id, <<>>, 200, "",
                           outputs[jobs[job_id]["output_folder"]])
       /\ UNCHANGED <<jobs, worker, outputs, polled, writes, sched>>

---------------------------------------------------------------------------
(* The worker thread: run_extraction, lines 100-127, calling                *)
(* extract_frames_from_video, lines 40-97.  One action per access to the    *)
(* shared state, so that a request handler can run between any two of them. *)

\* the upload the thread is working on, and its submitted name
CurrentPath(w) == w.video_paths[w.idx + 1]
CurrentFile(w) == File(CurrentPath(w).stem, CurrentPath(w).ext)

SetField(job_id, k, v) == [jobs EXCEPT ![job_id] = SetKey(@, k, v)]

\* (a variant of Line102 that leaves the status as it was)
Line102_StatusKept(job_id) ==
    /\ worker[job_id].pc = "l102"
    /\ worker' = [worker EXCEPT ![job_id].pc = "l106",
                                ![job_id].idx = 0,
                                ![job_id].total_frames = 0]
    /\ last' = None
    /\ UNCHANGED <<jobs, outputs, polled, writes, sched>>

\* lines 102-104
Line102(job_id) ==
    /\ worker[job_id].pc = "l102"
    /\ jobs' = SetField(job_id, "status", "running")
    /\ worker' = [worker EXCEPT ![job_id].pc = "l106",
                                ![job_id].idx = 0,
                                ![job_id].total_frames = 0]
    /\ last' = None
    /\ UNCHANGED <<outputs, polled, writes, sched>>

\* line 106 taking the next path, then lines 41-60 of extract_frames_from_video:
\* the capture is opened, the schedule computed, the creation time read.
\* os.stat raises when the upload has gone; opening a file OpenCV cannot read does not.
StartFile(job_id) ==
    LET w == worker[job_id]
        f == CurrentFile(w)
        schedule == index_to_extract(Fps4(f), FrameCount(f), w.interval_s, w.delay_s)
    IN  /\ w.pc = "l106"
        /\ w.idx < Len(w.video_paths)
        /\ \/ worker' = [worker EXCEPT ![job_id].pc = "l62",
                                       ![job_id].index_to_extract = schedule,
                                       ![job_id].n_frames = Len(schedule),
                                       ![job_id].i = 0]
           \/ worker' = [worker EXCEPT ![job_id].pc = "l126",
                                       ![job_id].e = "stat failed"]
        /\ last' = None
        /\ UNCHANGED <<jobs, outputs, polled, writes, sched>>

\* lines 62-84 for one scheduled frame: a frame that does not decode is skipped
\* (continue); one that does is saved under the name of its position i in the
\* schedule, unless the save raises.
Frame(job_id) ==
    LET w == worker[job_id]
        name == OutputName(CurrentPath(w), w.i)
    IN  /\ w.pc = "l62"
        /\ w.i < w.n_frames
        /\ \E ret \in DecodeResults(CurrentFile(w)) :
              \/ /\ ~ret
                 /\ worker' = [worker EXCEPT ![job_id].i = w.i + 1]
                 /\ UNCHANGED <<outputs, writes>>
              \/ /\ ret
                 /\ worker' = [worker EXCEPT ![job_id].pc = "l126",
                                             ![job_id].e = "save failed"]
                 /\ UNCHANGED <<outputs, writes>>
              \/ /\ ret
                 /\ outputs' = [outputs EXCEPT ![w.output_folder] = @ \cup {name}]
                 /\ writes' = Append(writes, <<job_id, w.idx, name>>)
                 /\ worker' = [worker EXCEPT ![job_id].pc = "l90"]
        /\ last' = None
        /\ UNCHANGED <<jobs, polled, sched>>

\* lines 88-90: jobs[job_id]['progress'] = round(overall)
Line90(job_id) ==
    LET w == worker[job_id]
    IN  /\ w.pc = "l90"
        /\ jobs' = SetField(job_id, "progress",
                       PyRound(OverallNum(w.idx, w.i, w.n_frames),
                               OverallDen(w.n_frames, Len(w.video_paths))))
        /\ worker' = [worker EXCEPT ![job_id].pc = "l91"]
        /\ last' = None
        /\ UNCHANGED <<outputs, polled, writes, sched>>

\* line 91: jobs[job_id]['current_file'] = os.path.basename(path)
Line91(job_id) ==
    LET w == worker[job_id]
    IN  /\ w.pc = "l91"
        /\ jobs' = SetField(job_id, "current_file", CurrentPath(w))
        /\ worker' = [worker EXCEPT ![job_id].pc = "l92"]
        /\ last' = None
        /\ UNCHANGED <<outputs, polled, writes, sched>>

\* line 92: frames_done = jobs[job_id].get('frames_accumulated', 0) + i + 1
Line92(job_id) ==
    LET w == worker[job_id]
    IN  /\ w.pc = "l92"
        /\ jobs' = SetField(job_id, "frames_done",
                       Get(jobs[job_id], "frames_accumulated", 0) + w.i + 1)
        /\ worker' = [worker EXCEPT ![job_id].pc = "l93"]
        /\ last' = None
        /\ UNCHANGED <<outputs, polled, writes, sched>>

\* (a variant of Line93 that counts the file in flight as done)
Line93_CountsCurrent(job_id) ==
    LET w == worker[job_id]
    IN  /\ w.pc = "l93"
        /\ jobs' = SetField(job_id, "files_done", w.idx + 1)
        /\ worker' = [worker EXCEPT ![job_id].pc = "l62", ![job_id].i = w.i + 1]
        /\ last' = None
        /\ UNCHANGED <<outputs, polled, writes, sched>>

\* line 93: files_done = file_index; then the next scheduled frame
Line93(job_id) ==
    LET w == worker[job_id]
    IN  /\ w.pc = "l93"
        /\ jobs' = SetField(job_id, "files_done", w.idx)
        /\ worker' = [worker EXCEPT ![job_id].pc = "l62", ![job_id].i = w.i + 1]
        /\ last' = None
        /\ UNCHANGED <<outputs, polled, writes, sched>>

\* the schedule is exhausted: lines 95-97 return n_frames, then lines 116-117
Line117(job_id) ==
    LET w == worker[job_id]
    IN  /\ w.pc = "l62"
        /\ w.i = w.n_frames
        /\ jobs' = SetField(job_id, "frames_accumulated", w.total_frames + w.n_frames)
        /\ worker' = [worker EXCEPT ![job_id].pc = "l118",
                                    ![job_id].total_frames = w.total_frames + w.n_frames]
        /\ last' = None
        /\ UNCHANGED <<outputs, polled, writes, sched>>

\* (a variant of Line118 in which the loop does not move to the next path)
Line118_SamePath(job_id) ==
    LET w == worker[job_id]
    IN  /\ w.pc = "l118"
        /\ jobs' = SetField(job_id, "files_done", w.idx + 1)
        /\ worker' = [worker EXCEPT ![job_id].pc = "l106"]
        /\ last' = None
        /\ UNCHANGED <<outputs, polled, writes, sched>>

\* line 118: files_done = idx + 1; then the next path
Line118(job_id) ==
    LET w == worker[job_id]
    IN  /\ w.pc = "l118"
        /\ jobs' = SetField(job_id, "files_done", w.idx + 1)
        /\ worker' = [worker EXCEPT ![job_id].pc = "l106", ![job_id].idx = w.idx + 1]
        /\ last' = None
        /\ UNCHANGED <<outputs, polled, writes, sched>>

\* the paths are exhausted: line 120
Line120(job_id) ==
    LET w == worker[job_id]
    IN  /\ w.pc = "l106"
        /\ w.idx = Len(w.video_paths)
        /\ jobs' = SetField(job_id, "status", "done")
        /\ worker' = [worker EXCEPT ![job_id].pc = "l121"]
        /\ last' = None
        /\ UNCHANGED <<outputs, polled, writes, sched>>

\* line 121
Line121(job_id) ==
    /\ worker[job_id].pc = "l121"
    /\ jobs' = SetField(job_id, "progress", 100)
    /\ worker' = [worker EXCEPT ![job_id].pc = "l122"]
    /\ last' = None
    /\ UNCHANGED <<outputs, polled, writes, sched>>

\* line 122
Line122(job_id) ==
    /\ worker[job_id].pc = "l122"
    /\ jobs' = SetField(job_id, "total_frames", worker[job_id].total_frames)
    /\ worker' = [worker EXCEPT ![job_id].pc = "l123"]
    /\ last' = None
    /\ UNCHANGED <<outputs, polled, writes, sched>>

\* line 123; the thread ends
Line123(job_id) ==
    /\ worker[job_id].pc = "l123"
    /\ jobs' = SetField(job_id, "output_folder", worker[job_id].output_folder)
    /\ worker' = [worker EXCEPT ![job_id].pc = "exit"]
    /\ last' = None
    /\ UNCHANGED <<outputs, polled, writes, sched>>

\* except Exception as e: line 126
Line126(job_id) ==
    /\ worker[job_id].pc = "l126"
    /\ jobs' = SetField(job_id, "status", "error")
    /\ worker' = [worker EXCEPT ![job_id].pc = "l127"]
    /\ last' = None
    /\ UNCHANGED <<outputs, polled, writes, sched>>

\* line 127; the thread ends
Line127(job_id) ==
    /\ worker[job_id].pc = "l127"
    /\ jobs' = SetField(job_id, "error", worker[job_id].e)
    /\ worker' = [worker EXCEPT ![job_id].pc = "exit"]
    /\ last' = None
    /\ UNCHANGED <<outputs, polled, writes, sched>>

\* one step of the thread of job_id, once upload has started it
run_extraction(job_id) ==
    /\ job_id \in DOMAIN worker
    /\ \/ Line102(job_id)
       \/ StartFile(job_id)
       \/ Frame(job_id)
       \/ Line90(job_id)
       \/ Line91(job_id)
       \/ Line92(job_id)
       \/ Line93(job_id)
       \/ Line117(job_id)
       \/ Line118(job_id)
       \/ Line120(job_id)
       \/ Line121(job_id)
       \/ Line122(job_id)
       \/ Line123(job_id)
       \/ Line126(job_id)
       \/ Line127(job_id)

---------------------------------------------------------------------------
(* The server: request handlers and worker threads, interleaved.  A handler  *)
(* is one step: the worker only adds keys to a record and moves its status  *)
(* forward, so whatever a handler reads over several instants it could have *)
(* read at the last of them.  One request is answered at a time.            *)

\* the response of the request just handled has been sent
Respond ==
    /\ last # None
    /\ last' = None
    /\ UNCHANGED <<jobs, worker, outputs, polled, writes, sched>>

Next ==
    \/ \E files \in Submissions, iv4 \in FormIntervals, dl4 \in FormDelays,
          job_id \in JobIds : upload(files, iv4, dl4, job_id)
    \/ \E job_id \in RequestIds : progress(job_id)
    \/ \E job_id \in RequestIds : download(job_id)
    \/ Respond
    \/ \E job_id \in DOMAIN worker : Line102(job_id)
    \/ \E job_id \in DOMAIN worker : StartFile(job_id)
    \/ \E job_id \in DOMAIN worker : Frame(job_id)
    \/ \E job_id \in DOMAIN worker : Line90(job_id)
    \/ \E job_id \in DOMAIN worker : Line91(job_id)
    \/ \E job_id \in DOMAIN worker : Line92(job_id)
    \/ \E job_id \in DOMAIN worker : Line93(job_id)
    \/ \E job_id \in DOMAIN worker : Line117(job_id)
    \/ \E job_id \in DOMAIN worker : Line118(job_id)
    \/ \E job_id \in DOMAIN worker : Line120(job_id)
    \/ \E job_id \in DOMAIN worker : Line121(job_id)
    \/ \E job_id \in DOMAIN worker : Line122(job_id)
    \/ \E job_id \in DOMAIN worker : Line123(job_id)
    \/ \E job_id \in DOMAIN worker : Line126(job_id)
    \/ \E job_id \in DOMAIN worker : Line127(job_id)

Spec == Init /\ [][Next]_vars

\* The server without the two requests that only read the registry (/progress and
\* /download write nothing a thread reads), with the scheduling a thread gets:
\* a started thread keeps being scheduled, and each call it makes returns or raises.
NextWorker ==
    \/ \E files \in Submissions, iv4 \in FormIntervals, dl4 \in FormDelays,
          job_id \in JobIds : upload(files, iv4, dl4, job_id)
    \/ Respond
    \/ \E job_id \in JobIds : run_extraction(job_id)

SpecWorker ==
    /\ Init
    /\ [][NextWorker]_vars
    /\ \A job_id \in JobIds : WF_vars(run_extraction(job_id))

---------------------------------------------------------------------------
(* POST /upload when nothing is assumed about the value of uuid4()[:8]       *)

\* upload as above, and lines 146-170 when str(uuid.uuid4())[:8] is an identifier
\* the registry already holds: makedirs(exist_ok=True) keeps the folder and its
\* images, line 160 puts a new record under the key, line 168 starts one more
\* thread for it.  The thread table has one entry per identifier, so the case is
\* followed only from states where the earlier thread of the identifier has ended.
upload_AnyId(files, iv4, dl4, job_id) ==
    \/ upload(files, iv4, dl4, job_id)
    \/ /\ last = None
       /\ ~NoFiles(files)
       /\ saved_paths(job_id, files) # <<>>
       /\ job_id \in DOMAIN jobs
       /\ worker[job_id].pc = "exit"
       /\ Len(writes) < MaxWritten
       /\ outputs' = MakeDirs(outputs, job_id)
       /\ jobs' = SetKey(jobs, job_id, NewJob(saved_paths(job_id, files)))
       /\ worker' = SetKey(worker, job_id,
                           NewThread(job_id, saved_paths(job_id, files), iv4, dl4))
       /\ last' = Response("upload", job_id, files, 200, "", <<>>)
       /\ UNCHANGED <<polled, writes, sched>>

NextAnyId ==
    \/ \E files \in Submissions, iv4 \in FormIntervals, dl4 \in FormDelays,
          job_id \in JobIds : upload_AnyId(files, iv4, dl4, job_id)
    \/ Respond
    \/ \E job_id \in JobIds : run_extraction(job_id)

SpecAnyId == Init /\ [][NextAnyId]_vars

---------------------------------------------------------------------------
(* The schedule computation on its own, over a range of videos and forms *)

ComputeSchedule(fps4, total_frames, iv4, dl4) ==
    [fps4 |-> fps4, total_frames |-> total_frames, iv4 |-> iv4, dl4 |-> dl4,
     out |-> index_to_extract(fps4, total_frames, iv4, dl4)]

ScheduleInputs ==
    {ComputeSchedule(fps4, n, iv4, dl4) :
        fps4 \in 0..MaxFps4, n \in 0..MaxCount, iv4 \in 1..MaxIv4, dl4 \in 0..MaxDl4}

InitSchedule ==
    /\ jobs = <<>>
    /\ worker = <<>>
    /\ outputs = <<>>
    /\ last = None
    /\ polled = [id \in JobIds |-> -1]
    /\ writes = <<>>
    /\ sched = InitSched

NextSchedule ==
    /\ sched' \in ScheduleInputs
    /\ UNCHANGED <<jobs, worker, outputs, last, polled, writes>>

SpecSchedule == InitSchedule /\ [][NextSchedule]_vars

---------------------------------------------------------------------------
(* Properties *)

Started == DOMAIN worker

C2_DoneMeansHundred ==
    (last.op = "progress" /\ last.code = 200 /\ last.body["status"] = "done")
        => last.body["progress"] = 100

\* C3: every job record is in exactly one of the three shapes: in progress with
\* neither output_folder nor error; done with output_folder and total_frames;
\* error with an error message.
C3_InProgress(r) ==
    /\ r["status"] \in {"queued", "running"}
    /\ "output_folder" \notin DOMAIN r
    /\ "error" \notin DOMAIN r

C3_Done(r) ==
    /\ r["status"] = "done"
    /\ "output_folder" \in DOMAIN r
    /\ "total_frames" \in DOMAIN r

C3_Error(r) ==
    /\ r["status"] = "error"
    /\ "error" \in DOMAIN r

C3_ExactlyOneShape ==
    \A id \in DOMAIN jobs :
        Cardinality({n \in 1..3 :
            \/ n = 1 /\ C3_InProgress(jobs[id])
            \/ n = 2 /\ C3_Done(jobs[id])
            \/ n = 3 /\ C3_Error(jobs[id])}) = 1

\* C4: /download for a known job answers with the archive of the job's output
\* location exactly when the job's status is done, and with the not-ready
\* error otherwise.
C4_DownloadIffDone ==
    (last.op = "download" /\ last.id \in DOMAIN jobs) =>
        IF jobs[last.id]["status"] = "done"
        THEN last.code = 200
        ELSE last.code = 400 /\ last.error = "Job not ready"

\* C5: /progress and /download for an identifier that is not in the registry
\* both answer with the not-found error.
C5_UnknownIdNotFound ==
    (last.op \in {"progress", "download"} /\ last.id \notin DOMAIN jobs) =>
        last.code = 404 /\ last.error = "Job not found"

\* the submissions C6 is about: no file at all (or the unnamed part of an empty
\* file input), or no file with one of the extensions .mov, .mp4, .avi in any case
C6_NoVideoAmong(files) ==
    \A k \in 1..Len(files) : files[k].ext \notin {".mov", ".MOV", ".mp4", ".avi"}

\* C6: a submission with no files, or with none of an accepted extension, is
\* answered with a submission error, leaves the registry as it was and starts
\* no worker.
C6_RejectedSubmissionChangesNothing ==
    [][(last.op = "none" /\ last'.op = "upload" /\ C6_NoVideoAmong(last'.files)) =>
          /\ last'.code = 400
          /\ last'.error \in {"No files uploaded", "No valid video files (MP4, MOV, AVI)"}
          /\ jobs' = jobs
          /\ worker' = worker]_vars

\* a submission of files that are not videos was refused while a job was running
C6_Witness ==
    /\ last.op = "upload" /\ last.code = 400
    /\ Len(last.files) > 0 /\ last.files[1] # NoName
    /\ C6_NoVideoAmong(last.files)
    /\ \E id \in DOMAIN jobs : jobs[id]["status"] = "running"

\* C7: a worker never gets past an unreadable file of its list: the files after
\* it are not processed, and the job ends in error with a message.
C7_UnreadableFileEndsJob ==
    \A id \in Started :
        \A k \in 1..Len(worker[id].video_paths) :
            LET p == worker[id].video_paths[k]
            IN  Unreadable(File(p.stem, p.ext)) =>
                    /\ worker[id].idx < k
                    /\ (worker[id].pc = "exit" /\ worker[id].idx = k - 1) =>
                           (jobs[id]["status"] = "error" /\ "error" \in DOMAIN jobs[id])

\* the names written for file number file_index of job id, in the order written
RECURSIVE C8_NamesOf(_, _, _)
C8_NamesOf(ws, id, file_index) ==
    IF ws = <<>> THEN <<>>
    ELSE LET rest == C8_NamesOf(Tail(ws), id, file_index)
         IN  IF Head(ws)[1] = id /\ Head(ws)[2] = file_index
             THEN <<Head(ws)[3]>> \o rest
             ELSE rest

\* C8: the images written for one source video are numbered 0000, 0001, ...
\* consecutively in the order written, whatever frames failed to decode.
C8_NamesAreConsecutive ==
    \A id \in Started :
        \A file_index \in 0..(Len(worker[id].video_paths) - 1) :
            LET names == C8_NamesOf(writes, id, file_index)
            IN  \A j \in 1..Len(names) : names[j].seq = Pad4(j - 1)

\* out is the arithmetic sequence from start by step with exactly its terms below n
C9_IsArithmeticBelow(out, start, step, n) ==
    /\ \A j \in 1..Len(out) : out[j] = start + (j - 1) * step /\ out[j] < n
    /\ start + Len(out) * step >= n

\* the example of the claim: 30 frames per second, 100 frames, interval_s = 1,
\* delay_s = 0
C9_Example == index_to_extract(120, 100, 4, 0) = <<0, 30, 60, 90>>

C10_ProgressAfterEveryFrame ==
    \A id \in Started :
        LET w == worker[id]
        IN  (w.pc = "l62" /\ w.i >= 1) =>
                jobs[id]["progress"] =
                    PyRound(100 * (w.idx * w.n_frames + w.i),
                            w.n_frames * Len(w.video_paths))

---------------------------------------------------------------------------

\* C11: every job whose worker has been started eventually has status done or
\* error, and a worker that has ended was not ended by an exception escaping
\* it: it ended after line 123 or after line 127, with the status it set there.
C11_Finished(id) ==
    /\ id \in DOMAIN jobs
    /\ jobs[id]["status"] \in {"done", "error"}

C11_WorkerEndsJob ==
    \A id \in JobIds : (id \in Started) ~> C11_Finished(id)

\* a job whose worker met an exception and turned it into status error with
\* its message
C11_Witness ==
    \E id \in Started :
        /\ worker[id].pc = "exit"
        /\ jobs[id]["status"] = "error"
        /\ "error" \in DOMAIN jobs[id]
        /\ jobs[id]["error"] = "save failed"

---------------------------------------------------------------------------

\* the number of scheduled frames of the file at position k (from 0) of thread w
C12_ScheduledFrames(w, k) ==
    LET p == w.video_paths[k + 1]
        f == File(p.stem, p.ext)
    IN  Len(index_to_extract(Fps4(f), FrameCount(f), w.interval_s, w.delay_s))

\* the four fields of record r are those of one progress update of thread w (the
\* update after frame i of file k), or those of the record as created;
\* files_done may already count file k as done
C12_FromOneUpdate(r, w) ==
    \/ /\ r["progress"] = 0
       /\ r["current_file"] = EmptyName
       /\ r["frames_done"] = 0
       /\ "files_done" \notin DOMAIN r
    \/ \E k \in 0..(Len(w.video_paths) - 1) :
          \E i \in 0..(C12_ScheduledFrames(w, k) - 1) :
              /\ r["progress"] =
                     PyRound(100 * (k * C12_ScheduledFrames(w, k) + i + 1),
                             C12_ScheduledFrames(w, k) * r["total_files"])
              /\ r["current_file"] = w.video_paths[k + 1]
              /\ "files_done" \in DOMAIN r
              /\ r["files_done"] \in {k, k + 1}
              /\ r["frames_done"] >= i + 1

\* C12: a 200 answer of /progress for a running job never carries a partially
\* updated record: its progress, current_file, frames_done and files_done all
\* come from one and the same update of the worker.
C12_NoTornSnapshot ==
    (last.op = "progress" /\ last.code = 200 /\ last.body["status"] = "running")
        => C12_FromOneUpdate(last.body, worker[last.id])

---------------------------------------------------------------------------

\* the submitted files with a video extension, in the order submitted
RECURSIVE C13_VideosOf(_)
C13_VideosOf(files) ==
    IF files = <<>> THEN <<>>
    ELSE IF Head(files).ext \in {".mov", ".MOV", ".mp4", ".avi"}
         THEN <<Head(files)>> \o C13_VideosOf(Tail(files))
         ELSE C13_VideosOf(Tail(files))

\* one step of a thread, from w to v, keeps the order: the list of files never changes, the
\* thread moves from file idx to file idx + 1 only, and only when every scheduled
\* frame of file idx has been gone through; inside a file it goes through the
\* schedule one position at a time from position 0, and the schedule ascends
C13_StepInOrder(w, v) ==
    /\ v.video_paths = w.video_paths
    /\ IF w.pc = "l118"
       THEN v.idx = w.idx + 1 /\ w.i = w.n_frames
       ELSE v.idx = w.idx
    /\ (w.pc = "l106" /\ v.pc = "l62") => v.i = 0
    /\ (w.pc \in {"l62", "l93"} /\ v.pc = "l62") => v.i = w.i + 1
    /\ (w.pc \notin {"l106", "l62", "l93"}) => v.i = w.i
    /\ (v.pc \in {"l62", "l90", "l91", "l92", "l93"}) =>
           /\ v.idx < Len(v.video_paths)
           /\ v.i <= v.n_frames
           /\ \A a, b \in 1..Len(v.index_to_extract) :
                  a < b => v.index_to_extract[a] < v.index_to_extract[b]

\* C13: the files of a job are processed in submission order, each once and one
\* at a time, and the scheduled frames of a file in ascending frame-index order.
C13_ProcessedInOrder ==
    [][/\ \A id \in DOMAIN worker :
              worker'[id] # worker[id] => C13_StepInOrder(worker[id], worker'[id])
       /\ \A id \in (DOMAIN worker') \ (DOMAIN worker) :
              /\ worker'[id].idx = 0
              /\ Len(worker'[id].video_paths) = Len(C13_VideosOf(last'.files))
              /\ \A k \in 1..Len(worker'[id].video_paths) :
                     /\ worker'[id].video_paths[k].stem = C13_VideosOf(last'.files)[k].stem
                     /\ worker'[id].video_paths[k].ext = C13_VideosOf(last'.files)[k].ext]_vars

\* the thread is at the second scheduled frame of the second of two different files
C13_Witness ==
    \E id \in Started :
        /\ worker[id].pc = "l90"
        /\ worker[id].idx = 1
        /\ worker[id].i = 1
        /\ worker[id].video_paths[1] # worker[id].video_paths[2]

---------------------------------------------------------------------------

\* the thread of job id is inside extract_frames_from_video for one of its files
C14_InsideFile(id) ==
    /\ id \in Started
    /\ worker[id].pc \in {"l62", "l90", "l91", "l92", "l93"}

\* C14: current_file is empty whenever the status is not running, and while the
\* job is running it names the video being processed.
C14_CurrentFileFollowsStatus ==
    \A id \in DOMAIN jobs :
        /\ jobs[id]["status"] # "running" => jobs[id]["current_file"] = EmptyName
        /\ (jobs[id]["status"] = "running" /\ C14_InsideFile(id)) =>
               jobs[id]["current_file"] = CurrentPath(worker[id])

---------------------------------------------------------------------------

\* the number of output images job id has written so far
C15_Written(id) == Cardinality({k \in 1..Len(writes) : writes[k][1] = id})

\* C15: right after a progress update frames_done is the number of images the
\* job has written so far, and in a done job total_frames is the number written;
\* scheduled frames that did not decode are not counted.
C15_CountersCountWrittenFrames ==
    \A id \in Started :
        /\ worker[id].pc = "l93" => jobs[id]["frames_done"] = C15_Written(id)
        /\ (jobs[id]["status"] = "done" /\ "total_frames" \in DOMAIN jobs[id]) =>
               jobs[id]["total_frames"] = C15_Written(id)

---------------------------------------------------------------------------

\* C16: an accepted submission gets an identifier that no job of the registry
\* has, and a job record, once created, changes only in steps of the job's own
\* worker thread: no later submission writes or re-initialises it.
C16_FreshIdAndOwnWorkerOnly ==
    [][\A id \in DOMAIN jobs :
          /\ ~(last'.op = "upload" /\ last'.code = 200 /\ last'.id = id)
          /\ jobs'[id] # jobs[id] => run_extraction(id)]_vars

---------------------------------------------------------------------------

\* files_done as a reader of the record gets it: the key is absent until the
\* worker first writes it, which reads as no file done
C17_FilesDone(r) == Get(r, "files_done", 0)

\* the number of files of the job for which the loop of line 106 has completed
\* its iteration
C17_FullyProcessed(id) == worker[id].idx

C17_CountIsRight(id) ==
    /\ C17_FilesDone(jobs[id]) = C17_FullyProcessed(id)
    /\ C17_FilesDone(jobs[id]) <= jobs[id]["total_files"]
    /\ jobs[id]["status"] = "done" =>
           /\ "files_done" \in DOMAIN jobs[id]
           /\ jobs[id]["files_done"] = jobs[id]["total_files"]

---------------------------------------------------------------------------

\* the changes of status a job may make
C18_Transitions ==
    {<<"queued", "running">>, <<"running", "done">>, <<"running", "error">>}

---------------------------------------------------------------------------

\* the positions in the history of writes that belong to job id
C19_WritesOf(id) == {k \in 1..Len(writes) : writes[k][1] = id}

\* C19: within a job every written frame has an output file of its own, also when
\* two input videos have the same stem: no two writes of the job go to one name,
\* and a done job's output folder holds as many files as frames were written.
C19_EachFrameOwnFile ==
    \A id \in Started :
        /\ \A a, b \in C19_WritesOf(id) : a # b => writes[a][3] # writes[b][3]
        /\ jobs[id]["status"] = "done" =>
               Cardinality(outputs[id]) = Cardinality(C19_WritesOf(id))

=============================================================================
